---------------------------- MODULE Spec2Model ----------------------------
(***************************************************************************)
(* MorphoCut core (src/morphocut/core.py): the process-wide pipeline       *)
(* stack, node construction and registration, and the generator chain     *)
(* that Pipeline.transform_stream composes and a consumer pulls.           *)
(*                                                                         *)
(* Two specifications share the variables:                                 *)
(*   Spec     the build phase: scopes are entered and left, nodes are      *)
(*            constructed, outputs are retrieved;                          *)
(*   RunSpec  the execution phase: one built pipeline is composed into a   *)
(*            chain of generators and pulled by a consumer, one generator  *)
(*            step at a time.                                              *)
(***************************************************************************)
EXTENDS Integers, Sequences, FiniteSets, TLC

\* ------------------------------------------------------------------ bounds
\* Pipeline objects that exist during the build phase.
MaxPipelines == 2
\* Deepest nesting of open scopes (length of _pipeline_stack).
MaxDepth == 2
\* Node objects constructed during the build phase.
MaxNodes == 2
\* Nodes registered in the pipeline that RunSpec executes.
MaxChain == 2
\* Outputs applied to classes after the class definitions of the model.
MaxOutputs == 2
\* Records of the input sequence handed to Pipeline.transform_stream.
MaxRecords == 2

Pipelines == 1..MaxPipelines

\* ------------------------------------------------------------------ values
\* Python values, all of one shape so that any two can be compared:
\* t is the type, n the number of an int (or the identity of a Variable),
\* items the elements of a tuple (or the values of a dict, keys left out:
\* _resolve_variable never touches them).
PyNone == [t |-> "none", n |-> 0, items |-> <<>>]

PyInt(k) == [t |-> "int", n |-> k, items |-> <<>>]

PyTuple(s) == [t |-> "tuple", n |-> 0, items |-> s]

PyDict(s) == [t |-> "dict", n |-> 0, items |-> s]

\* The Variable object with identity v, used as a construction argument.
PyVar(v) == [t |-> "var", n |-> v, items |-> <<>>]

\* A string (n: which one).
PyStr(k) == [t |-> "str", n |-> k, items |-> <<>>]

\* An exception in place of a value.
Raised(e) == [t |-> e, n |-> 0, items |-> <<>>]

IsRaised(x) ==
    x.t \in {"KeyError", "ValueError", "TypeError", "AttributeError", "IndexError"}

\* bool(x)
Truthy(x) ==
    CASE x.t = "none" -> FALSE
      [] x.t = "int" -> x.n # 0
      [] x.t \in {"tuple", "dict"} -> x.items # <<>>
      [] OTHER -> TRUE

\* --------------------------------------------------------------- variables
VARIABLES
    \* build phase: the program's objects
    _pipeline_stack,    \* the module-level list of active Pipelines
    nodes,              \* Pipeline.nodes, per Pipeline
    class_outputs,      \* cls.outputs, per node class: its Output ports' names
    node,               \* the Node objects, in construction order
    variable,           \* the Variable objects, in construction order
    ret,                \* what the last call returned or raised
    \* build phase: history
    op,                 \* the last call: its name and the object it was made on
                        \* (of transform_stream: 0 when no stream was given;
                        \* of an Output: the place of the class in TypeNames,
                        \* and a third field, the Output's name)
    scopes,             \* the scopes entered and not yet left, innermost last
    closed,             \* the scope that the last __exit__ left
    misnested,          \* some __exit__ was not the innermost open scope's
    popped,             \* the entry that the last __exit__ popped (0: none)
    init_top,           \* per Node, the top of the stack when it was constructed
    \* execution phase: the program's objects
    pipeline,           \* the Pipeline whose transform_stream is called
    stream,             \* the input sequence (a list of records)
    it,                 \* the list iterator: how many items it has handed out
    obj,                \* the records (dicts keyed by Variable)
    chain,              \* the generators transform_stream composed, upstream first
    gen,                \* each generator's position
    ctl,                \* where control is: a next() going up, a result coming down
    consumer,           \* the consumer of the composed stream
    \* execution phase: history
    trace,              \* per input position, the chain positions that transformed it
    delivered,          \* the input positions yielded to the consumer, in order
    after_log,          \* the chain positions whose after_stream ran, in order
    warned,             \* the chain positions that warned of unretrieved outputs
    pulls               \* next() calls the consumer made

buildVars == <<_pipeline_stack, nodes, class_outputs, node, variable>>

buildHist == <<op, scopes, closed, misnested, popped, init_top>>

runVars == <<pipeline, stream, it, obj, chain, gen, ctl, consumer>>

runHist == <<trace, delivered, after_log, warned, pulls>>

vars == <<buildVars, ret, buildHist, runVars, runHist>>

\* ------------------------------------------------------------ node classes
\* LambdaNode is the one Node subclass of core.py; Sink and Split stand for
\* concrete steps that declare no and two Output ports.
Classes == {"LambdaNode", "Sink", "Split"}

\* The subclasses of Node: those, and SubSplit, a subclass of Split.
NodeTypes == Classes \cup {"SubSplit"}

\* What an Output can be applied to, in a fixed order: the subclasses of
\* Node, a class that is no subclass of Node (int), and an object that is no
\* class (the wrapper that ReturnOutputs returns).
TypeNames == <<"LambdaNode", "Sink", "Split", "SubSplit", "int", "wrapper">>

\* The base class of a subclass of Node ("Node": it has no attribute
\* outputs).
BaseOf(c) == IF c = "SubSplit" THEN "Split" ELSE "Node"

\* cls.outputs per class: the list in the class's own namespace, <<>> for a
\* class that has none (Output.__call__ creates a list only to insert into
\* it, so a list that exists is never empty).  The state after the class
\* definitions ran: @Output("out") on LambdaNode, two Outputs on Split,
\* none on Sink and on SubSplit.
InitialClassOutputs ==
    [c \in NodeTypes |->
        CASE c = "LambdaNode" -> <<"out">>
          [] c = "Split" -> <<"first", "second">>
          [] OTHER -> <<>>]

\* The class in whose namespace the lookup cls.outputs finds the list
\* ("Node": in none, AttributeError).
OwnerOf(co, cls) ==
    IF co[cls] # <<>> THEN cls
    ELSE IF BaseOf(cls) # "Node" /\ co[BaseOf(cls)] # <<>> THEN BaseOf(cls)
    ELSE "Node"

\* getattr(cls, "outputs", [])
ClassOutputs(co, cls) == IF OwnerOf(co, cls) = "Node" THEN <<>> ELSE co[OwnerOf(co, cls)]

Top(s) == IF s = <<>> THEN 0 ELSE s[Len(s)]

Front(s) == SubSeq(s, 1, Len(s) - 1)

\* The build phase's objects as one value, so that an operation is a
\* function from state to state.
Cur ==
    [stack |-> _pipeline_stack, nodes |-> nodes, class_outputs |-> class_outputs,
     node |-> node, variable |-> variable, ret |-> ret]

Install(st) ==
    /\ _pipeline_stack' = st.stack
    /\ nodes' = st.nodes
    /\ class_outputs' = st.class_outputs
    /\ node' = st.node
    /\ variable' = st.variable
    /\ ret' = st.ret

EmptyBuild ==
    [stack |-> <<>>, nodes |-> [p \in Pipelines |-> <<>>],
     class_outputs |-> InitialClassOutputs,
     node |-> <<>>, variable |-> <<>>, ret |-> PyNone]


\* ------------------------------------------------------- build operations
\* Output.create_variable: a new Variable named after the port, bound to
\* the node.
create_variable(name, n) == [name |-> name, node |-> n]

\* Pipeline._add_node: append to the Pipeline's list.
_add_node(ns, n) == Append(ns, n)

\* Node.__init__ as it would be with the registration skipped, silently,
\* when no Pipeline is active.
NodeInitSilent(st, cls) ==
    LET id == Len(st.node) + 1
        ports == ClassOutputs(st.class_outputs, cls)
        base == Len(st.variable)
        bound == [i \in 1..Len(ports) |-> create_variable(ports[i], id)]
        self == [cls |-> cls,
                 outputs |-> [i \in 1..Len(ports) |-> base + i],
                 outputs_retrieved |-> FALSE,
                 clbl |-> "unset", args |-> PyTuple(<<>>), kwargs |-> PyDict(<<>>)]
        st1 == [st EXCEPT !.node = Append(@, self), !.variable = @ \o bound]
    IN  IF st.stack = <<>>
        THEN [st1 EXCEPT !.ret = PyNone]
        ELSE [st1 EXCEPT !.nodes[Top(st.stack)] = _add_node(@, id), !.ret = PyNone]

\* Node.__init__ as it would be registering with _pipeline_stack[0], the
\* outermost active Pipeline.
NodeInitOutermost(st, cls) ==
    LET id == Len(st.node) + 1
        ports == ClassOutputs(st.class_outputs, cls)
        base == Len(st.variable)
        bound == [i \in 1..Len(ports) |-> create_variable(ports[i], id)]
        self == [cls |-> cls,
                 outputs |-> [i \in 1..Len(ports) |-> base + i],
                 outputs_retrieved |-> FALSE,
                 clbl |-> "unset", args |-> PyTuple(<<>>), kwargs |-> PyDict(<<>>)]
        st1 == [st EXCEPT !.node = Append(@, self), !.variable = @ \o bound]
    IN  IF st.stack = <<>>
        THEN [st1 EXCEPT !.ret = Raised("RuntimeError")]
        ELSE [st1 EXCEPT !.nodes[st.stack[1]] = _add_node(@, id), !.ret = PyNone]

\* Node.__init__: bind one Variable per port of the class, in port order,
\* then register with the Pipeline on top of the stack; RuntimeError when
\* the stack is empty (the object and its Variables exist by then).
NodeInit(st, cls) ==
    LET id == Len(st.node) + 1
        ports == ClassOutputs(st.class_outputs, cls)
        base == Len(st.variable)
        bound == [i \in 1..Len(ports) |-> create_variable(ports[i], id)]
        self == [cls |-> cls,
                 outputs |-> [i \in 1..Len(ports) |-> base + i],
                 outputs_retrieved |-> FALSE,
                 clbl |-> "unset", args |-> PyTuple(<<>>), kwargs |-> PyDict(<<>>)]
        st1 == [st EXCEPT !.node = Append(@, self), !.variable = @ \o bound]
    IN  IF st.stack = <<>>
        THEN [st1 EXCEPT !.ret = Raised("RuntimeError")]
        ELSE [st1 EXCEPT !.nodes[Top(st.stack)] = _add_node(@, id), !.ret = PyNone]

\* LambdaNode.__init__ (and a concrete step's): Node.__init__ first, then
\* the construction parameters become fields of the node.
Construct(st, t) ==
    LET st1 == NodeInit(st, t.cls)
    IN  IF st1.ret.t = "RuntimeError"
        THEN st1
        ELSE [st1 EXCEPT !.node[Len(st1.node)] =
                 [@ EXCEPT !.clbl = t.clbl, !.args = t.args, !.kwargs = t.kwargs]]

\* Node.__call__ as it would be returning the list of the Variables whatever
\* their number.
NodeCallAlwaysList(st, n) ==
    [st EXCEPT !.node[n].outputs_retrieved = TRUE,
               !.ret = [t |-> "list", n |-> 0,
                        items |-> [i \in DOMAIN st.node[n].outputs |->
                                      PyVar(st.node[n].outputs[i])]]]

\* Node.__call__: mark the outputs retrieved; return None, the one
\* Variable, or the list of them.
NodeCall(st, n) ==
    LET outputs == st.node[n].outputs
        result ==
            IF outputs = <<>> THEN PyNone
            ELSE IF Len(outputs) = 1 THEN PyVar(outputs[1])
            ELSE [t |-> "list", n |-> 0,
                  items |-> [i \in 1..Len(outputs) |-> PyVar(outputs[i])]]
    IN  [st EXCEPT !.node[n].outputs_retrieved = TRUE, !.ret = result]

\* ReturnOutputs' wrapper: node_cls(*args, **kwargs)().
ReturnOutputs(st, t) ==
    LET st1 == Construct(st, t)
    IN  IF st1.ret.t = "RuntimeError" THEN st1 ELSE NodeCall(st1, Len(st1.node))

\* Pipeline.__enter__: push self, return self.
PipelineEnter(st, p) ==
    [st EXCEPT !.stack = Append(@, p),
               !.ret = [t |-> "Pipeline", n |-> p, items |-> <<>>]]

\* Pipeline.__exit__ as it would be popping the first entry, pop(0).
PipelineExitFirst(st, p) ==
    IF st.stack = <<>>
    THEN [st EXCEPT !.ret = Raised("IndexError")]
    ELSE [st EXCEPT !.stack = Tail(@),
                    !.ret = IF Head(st.stack) = p
                            THEN PyNone ELSE Raised("AssertionError")]

\* Pipeline.__exit__ as it would be without its assert statement.
PipelineExitUnchecked(st, p) ==
    IF st.stack = <<>>
    THEN [st EXCEPT !.ret = Raised("IndexError")]
    ELSE [st EXCEPT !.stack = Front(@), !.ret = PyNone]

\* Pipeline.__exit__ as it would be checking before it pops: the stack is
\* left as it is when its top is not self.
PipelineExitCheckFirst(st, p) ==
    IF st.stack = <<>>
    THEN [st EXCEPT !.ret = Raised("IndexError")]
    ELSE IF Top(st.stack) = p
    THEN [st EXCEPT !.stack = Front(@), !.ret = PyNone]
    ELSE [st EXCEPT !.ret = Raised("AssertionError")]

\* Pipeline.__exit__: pop the stack and assert that the popped item is
\* self (list.pop raises IndexError on an empty list).
PipelineExit(st, p) ==
    IF st.stack = <<>>
    THEN [st EXCEPT !.ret = Raised("IndexError")]
    ELSE [st EXCEPT !.stack = Front(@),
                    !.ret = IF Top(st.stack) = p
                            THEN PyNone ELSE Raised("AssertionError")]

\* ---------------------------------------------------------- build actions
NoArgs == PyTuple(<<>>)

NoKwargs == PyDict(<<>>)

\* What the build phase constructs: a LambdaNode of a constant and a step
\* with two ports.
Templates ==
    {[cls |-> "LambdaNode", clbl |-> "const5", args |-> NoArgs, kwargs |-> NoKwargs],
     [cls |-> "Split", clbl |-> "pair", args |-> NoArgs, kwargs |-> NoKwargs]}

NoScope == [pl |-> 0, outer |-> 0]

\* The innermost open scope of Pipeline p (0: none).
InnermostScope(p) ==
    IF \E i \in DOMAIN scopes : scopes[i].pl = p
    THEN CHOOSE i \in DOMAIN scopes :
            /\ scopes[i].pl = p
            /\ \A j \in DOMAIN scopes : scopes[j].pl = p => j <= i
    ELSE 0

\* with p: ... is entered.
Enter(p) ==
    /\ Len(_pipeline_stack) < MaxDepth
    /\ Len(scopes) < MaxDepth
    /\ Install(PipelineEnter(Cur, p))
    /\ op' = [name |-> "enter", arg |-> p]
    /\ scopes' = IF misnested THEN <<>>
                  ELSE Append(scopes, [pl |-> p, outer |-> Top(_pipeline_stack)])
    /\ closed' = NoScope
    /\ popped' = 0
    /\ UNCHANGED <<misnested, init_top, runVars, runHist>>

\* The with block of p ends, or p.__exit__ is called by hand.  The history
\* of scopes is kept only as long as every exit was the innermost scope's.
Exit(p) ==
    LET i == InnermostScope(p)
        proper == ~misnested /\ i # 0 /\ i = Len(scopes)
    IN  /\ Install(PipelineExit(Cur, p))
        /\ op' = [name |-> "exit", arg |-> p]
        /\ scopes' = IF proper THEN Front(scopes) ELSE <<>>
        /\ closed' = IF proper THEN scopes[i] ELSE NoScope
        /\ misnested' = ~proper
        /\ popped' = Top(_pipeline_stack)
        /\ UNCHANGED <<init_top, runVars, runHist>>

\* cls(...) of the bare class: the Node object is the result.
NewNode(t) ==
    /\ Len(node) < MaxNodes
    /\ Install(Construct(Cur, t))
    /\ op' = [name |-> "init", arg |-> 0]
    /\ init_top' = Append(init_top, Top(_pipeline_stack))
    /\ closed' = NoScope
    /\ popped' = 0
    /\ UNCHANGED <<scopes, misnested, runVars, runHist>>

\* cls(...) of the class wrapped by ReturnOutputs: the outputs are the
\* result.
NewNodeOutputs(t) ==
    /\ Len(node) < MaxNodes
    /\ Install(ReturnOutputs(Cur, t))
    /\ op' = [name |-> "wrapper", arg |-> 0]
    /\ init_top' = Append(init_top, Top(_pipeline_stack))
    /\ closed' = NoScope
    /\ popped' = 0
    /\ UNCHANGED <<scopes, misnested, runVars, runHist>>

\* n() on a constructed node.
Retrieve(n) ==
    /\ init_top[n] # 0
    /\ Install(NodeCall(Cur, n))
    /\ op' = [name |-> "call", arg |-> n]
    /\ closed' = NoScope
    /\ popped' = 0
    /\ UNCHANGED <<scopes, misnested, init_top, runVars, runHist>>

\* Nothing is composed and nothing runs during the build phase.
Idle ==
    /\ pipeline = 0
    /\ stream = <<>>
    /\ it = 0
    /\ obj = <<>>
    /\ chain = <<>>
    /\ gen = <<>>
    /\ ctl = [at |-> 0, msg |-> "none", rec |-> 0]
    /\ consumer = "none"
    /\ trace = <<>>
    /\ delivered = <<>>
    /\ after_log = <<>>
    /\ warned = {}
    /\ pulls = 0

Init ==
    /\ _pipeline_stack = <<>>
    /\ nodes = [p \in Pipelines |-> <<>>]
    /\ class_outputs = InitialClassOutputs
    /\ node = <<>>
    /\ variable = <<>>
    /\ ret = PyNone
    /\ op = [name |-> "none", arg |-> 0]
    /\ scopes = <<>>
    /\ closed = NoScope
    /\ misnested = FALSE
    /\ popped = 0
    /\ init_top = <<>>
    /\ Idle

Next ==
    \/ \E p \in Pipelines : Enter(p)
    \/ \E p \in Pipelines : Exit(p)
    \/ \E t \in Templates : NewNode(t)
    \/ \E t \in Templates : NewNodeOutputs(t)
    \/ \E n \in DOMAIN node : Retrieve(n)

Spec == Init /\ [][Next]_vars


\* ------------------------------------------------------------ build claims
Count(s, x) == Cardinality({i \in DOMAIN s : s[i] = x})

\* C1: constructing a Node while _pipeline_stack is empty raises (and
\* registers the node nowhere); construction succeeds only while at least
\* one Pipeline is active.
C1_ConstructionNeedsActivePipeline ==
    op.name \in {"init", "wrapper"} =>
        /\ (ret.t = "RuntimeError") <=> (init_top[Len(node)] = 0)
        /\ init_top[Len(node)] = 0 => \A p \in Pipelines : Count(nodes[p], Len(node)) = 0
        /\ init_top[Len(node)] # 0 => \E p \in Pipelines : Count(nodes[p], Len(node)) > 0

\* A construction has just failed on the empty stack.
C1_Witness ==
    /\ op.name \in {"init", "wrapper"}
    /\ _pipeline_stack = <<>>
    /\ ret.t = "RuntimeError"

\* C2: as long as every exit was made by the Pipeline on top, the stack is
\* exactly the scopes still open, so it is empty once all are closed; and
\* after an exit the top of the stack is again the Pipeline that was on top
\* just before the closed scope was entered.
C2_NestedScopesRestoreStack ==
    ~misnested =>
        /\ _pipeline_stack = [i \in DOMAIN scopes |-> scopes[i].pl]
        /\ (scopes = <<>> => _pipeline_stack = <<>>)
        /\ (op.name = "exit" => ret = PyNone /\ Top(_pipeline_stack) = closed.outer)

\* An inner scope has just been left and the outer Pipeline is on top again.
C2_Witness ==
    /\ ~misnested
    /\ op.name = "exit"
    /\ closed.outer # 0
    /\ closed.outer # closed.pl
    /\ Top(_pipeline_stack) = closed.outer

\* C3: __exit__ of a Pipeline that is not the entry it pops raises.
C3_ExitOfNonTopFails ==
    (op.name = "exit" /\ popped # 0 /\ popped # op.arg) => ret.t = "AssertionError"

\* An exit has just popped another Pipeline's entry and raised.
C3_Witness ==
    /\ op.name = "exit"
    /\ ret.t = "AssertionError"
    /\ misnested

\* C4: every successfully constructed Node is exactly once in the list of
\* exactly one Pipeline, the one that was on top of the stack when it was
\* constructed (a Node whose construction failed is in none), and every
\* list is in construction order.
C4_RegisteredOnceInInnermost ==
    /\ \A n \in DOMAIN node : \A p \in Pipelines :
            Count(nodes[p], n) = IF init_top[n] = p THEN 1 ELSE 0
    /\ \A p \in Pipelines : \A i, j \in DOMAIN nodes[p] :
            /\ nodes[p][i] \in DOMAIN node
            /\ i < j => nodes[p][i] < nodes[p][j]

\* Two nodes were constructed inside the inner of two nested scopes of
\* different Pipelines: both are in the inner Pipeline's list, in order.
C4_Witness ==
    /\ Len(_pipeline_stack) = 2
    /\ _pipeline_stack[1] # _pipeline_stack[2]
    /\ nodes[_pipeline_stack[2]] = <<1, 2>>
    /\ nodes[_pipeline_stack[1]] = <<>>


\* ----------------------------------------------------- per-record functions
\* The callables that nodes are constructed with.
Callables ==
    <<"const5", "double", "identity", "pair", "none", "getattr", "getitem", "setitem">>

\* A callable as a value (n: its place in Callables).
PyFunction(name) ==
    [t |-> "function",
     n |-> CHOOSE i \in DOMAIN Callables : Callables[i] = name,
     items |-> <<>>]

EmptyDict == <<>>

\* Variable as it would be with name-based __eq__ and __hash__: the key is
\* the first Variable of that name.
KeyByName(v) ==
    CHOOSE w \in DOMAIN variable :
        /\ variable[w].name = variable[v].name
        /\ \A u \in DOMAIN variable : variable[u].name = variable[v].name => w <= u

\* Variable defines neither __eq__ nor __hash__: a dict keys it by identity.
Key(v) == v

Min(S) == CHOOSE x \in S : \A y \in S : x <= y

\* _resolve_variable as it would be without its branch for dicts: the
\* values of a dict are returned as they are.
RECURSIVE ResolveTuplesOnly(_, _)
ResolveTuplesOnly(o, x) ==
    IF x.t = "var"
    THEN IF Key(x.n) \in DOMAIN o THEN o[Key(x.n)] ELSE Raised("KeyError")
    ELSE IF x.t = "tuple"
    THEN LET r == [i \in DOMAIN x.items |-> ResolveTuplesOnly(o, x.items[i])]
             bad == {i \in DOMAIN r : IsRaised(r[i])}
         IN  IF bad # {} THEN r[Min(bad)] ELSE [x EXCEPT !.items = r]
    ELSE x

\* _resolve_variable: a Variable is looked up in the record (KeyError when
\* absent), tuples and dict values are resolved element by element, any
\* other value is returned as it is.
RECURSIVE _resolve_variable(_, _)
_resolve_variable(o, x) ==
    IF x.t = "var"
    THEN IF Key(x.n) \in DOMAIN o THEN o[Key(x.n)] ELSE Raised("KeyError")
    ELSE IF x.t \in {"tuple", "dict"}
    THEN LET r == [i \in DOMAIN x.items |-> _resolve_variable(o, x.items[i])]
             bad == {i \in DOMAIN r : IsRaised(r[i])}
         IN  IF bad # {} THEN r[Min(bad)] ELSE [x EXCEPT !.items = r]
    ELSE x

\* Node._get_parameter_names for LambdaNode.transform(clbl, args, kwargs).
_get_parameter_names == <<"clbl", "args", "kwargs">>

\* getattr(self, name)
Field(self, name) ==
    CASE name = "clbl" -> PyFunction(self.clbl)
      [] name = "args" -> self.args
      [] name = "kwargs" -> self.kwargs

\* Node.prepare_input as it would be handing the fields to transform as
\* they are, Variables unresolved.
PrepareInputUnresolved(self, o, names) ==
    PyTuple([i \in DOMAIN names |-> Field(self, names[i])])

\* Node.prepare_input for a list of names: the tuple of the resolved fields.
prepare_input(self, o, names) ==
    _resolve_variable(o, PyTuple([i \in DOMAIN names |-> Field(self, names[i])]))

\* clbl(*args, **kwargs) for the callables of the model; TypeError for a
\* call with the wrong number or type of arguments.
Apply(clbl, a) ==
    CASE clbl = "const5" -> IF a = <<>> THEN PyInt(5) ELSE Raised("TypeError")
      [] clbl = "none" -> IF a = <<>> THEN PyNone ELSE Raised("TypeError")
      [] clbl = "pair" ->
            IF a = <<>> THEN PyTuple(<<PyInt(1), PyInt(2)>>) ELSE Raised("TypeError")
      [] clbl = "identity" -> IF Len(a) = 1 THEN a[1] ELSE Raised("TypeError")
      [] clbl = "double" ->
            IF Len(a) # 1 THEN Raised("TypeError")
            ELSE IF a[1].t = "int" THEN PyInt(2 * a[1].n)
            ELSE IF a[1].t = "tuple" THEN PyTuple(a[1].items \o a[1].items)
            ELSE Raised("TypeError")
      \* getattr(o, name): no value of the model has an attribute of the
      \* names the model asks for
      [] clbl = "getattr" ->
            IF Len(a) # 2 THEN Raised("TypeError") ELSE Raised("AttributeError")
      \* operator.getitem(o, key): an element of a tuple; a dict of the model
      \* has none of the model's keys (ints)
      [] clbl = "getitem" ->
            IF Len(a) # 2 THEN Raised("TypeError")
            ELSE IF a[1].t = "tuple" /\ a[2].t = "int"
            THEN IF a[2].n + 1 \in DOMAIN a[1].items
                 THEN a[1].items[a[2].n + 1] ELSE Raised("IndexError")
            ELSE IF a[1].t = "dict" THEN Raised("KeyError")
            ELSE Raised("TypeError")
      \* operator.setitem(o, key, value): on the resolved copy of a dict,
      \* returning None; no other value of the model supports it
      [] clbl = "setitem" ->
            IF Len(a) = 3 /\ a[1].t = "dict" THEN PyNone ELSE Raised("TypeError")

\* LambdaNode.transform(clbl, args, kwargs)
transform(parameters) ==
    Apply(Callables[parameters.items[1].n],
          parameters.items[2].items \o parameters.items[3].items)

\* obj[variable] = r
SetItem(o, k, r) == [x \in DOMAIN o \cup {k} |-> IF x = k THEN r ELSE o[x]]

\* The write loop as it would be with the values taken from the last to the
\* first: zip(self.outputs, reversed(values)).
WriteOutputsReversed(o, outputs, values, i) ==
    [x \in DOMAIN o \cup {Key(outputs[j]) : j \in i..Len(outputs)} |->
        IF \E j \in i..Len(outputs) : x = Key(outputs[j])
        THEN values[Len(outputs) + 1 - (CHOOSE j \in i..Len(outputs) : x = Key(outputs[j]))]
        ELSE o[x]]

RECURSIVE WriteOutputs(_, _, _, _)
WriteOutputs(o, outputs, values, i) ==
    IF i > Len(outputs) THEN o
    ELSE WriteOutputs(SetItem(o, Key(outputs[i]), values[i]), outputs, values, i + 1)

\* prepare_output as it would be with one retry instead of the loop: the
\* contents of a single tuple are substituted once and the count is checked
\* once more.
UnnestOnce(values, n_outputs) ==
    IF Len(values) = n_outputs
    THEN [err |-> "", values |-> values]
    ELSE IF Len(values) = 1 /\ values[1].t = "tuple" /\ Len(values[1].items) = n_outputs
    THEN [err |-> "", values |-> values[1].items]
    ELSE [err |-> "ValueError", values |-> values]

\* The loop of prepare_output: while the counts differ and values is one
\* tuple, values becomes that tuple.
RECURSIVE Unnest(_, _)
Unnest(values, n_outputs) ==
    IF Len(values) # n_outputs
    THEN IF Len(values) = 1 /\ values[1].t = "tuple"
         THEN Unnest(values[1].items, n_outputs)
         ELSE [err |-> "ValueError", values |-> values]
    ELSE [err |-> "", values |-> values]

\* Node.prepare_output as it would be writing before it has checked the
\* count: zip(self.outputs, values) is written, then the mismatch raised.
PrepareOutputWriteFirst(self, o, values) ==
    IF self.outputs = <<>>
    THEN IF \E i \in DOMAIN values : Truthy(values[i])
         THEN [err |-> "ValueError", obj |-> o]
         ELSE [err |-> "", obj |-> o]
    ELSE LET u == Unnest(values, Len(self.outputs))
             n == IF Len(u.values) < Len(self.outputs)
                  THEN Len(u.values) ELSE Len(self.outputs)
         IN  [err |-> u.err,
              obj |-> WriteOutputs(o, SubSeq(self.outputs, 1, n), u.values, 1)]

\* Node.prepare_output(obj, *values): the updated record, or the error.
prepare_output(self, o, values) ==
    IF self.outputs = <<>>
    THEN IF \E i \in DOMAIN values : Truthy(values[i])
         THEN [err |-> "ValueError", obj |-> o]
         ELSE [err |-> "", obj |-> o]
    ELSE LET u == Unnest(values, Len(self.outputs))
         IN  IF u.err # ""
             THEN [err |-> u.err, obj |-> o]
             ELSE [err |-> "", obj |-> WriteOutputs(o, self.outputs, u.values, 1)]

\* One pass of the loop body of Node.transform_stream up to the yield:
\* prepare_input, transform, prepare_output.  called: transform was invoked.
Process(self, o) ==
    LET parameters == prepare_input(self, o, _get_parameter_names)
        result == transform(parameters)
        out == prepare_output(self, o, <<result>>)
    IN  IF IsRaised(parameters)
        THEN [err |-> parameters.t, obj |-> o, called |-> FALSE]
        ELSE IF IsRaised(result)
        THEN [err |-> result.t, obj |-> o, called |-> TRUE]
        ELSE [err |-> out.err, obj |-> out.obj, called |-> TRUE]

\* ------------------------------------------------------ the executed build
\* What the executed pipeline is built from: LambdaNodes of a constant, of a
\* function of any Variable that exists, steps with two ports and with none
\* (with results that fit their ports and with results that do not), and a
\* LambdaNode whose outputs are never retrieved.
RunTemplates(st) ==
    {[cls |-> "LambdaNode", clbl |-> "const5", args |-> NoArgs, kwargs |-> NoKwargs,
      wrapped |-> w] : w \in BOOLEAN}
    \cup {[cls |-> c, clbl |-> f, args |-> NoArgs, kwargs |-> NoKwargs,
           wrapped |-> TRUE] : c \in {"Split", "Sink"}, f \in {"pair", "none"}}
    \cup {[cls |-> "LambdaNode", clbl |-> "double",
           args |-> PyTuple(<<PyVar(v)>>), kwargs |-> NoKwargs, wrapped |-> TRUE] :
            v \in DOMAIN st.variable}

\* t(...) inside the open scope: through ReturnOutputs' wrapper or not.
Build(st, t) == IF t.wrapped THEN ReturnOutputs(st, t) ELSE Construct(st, t)

\* LambdaNode(lambda: 5)
Const5Template ==
    [cls |-> "LambdaNode", clbl |-> "const5", args |-> NoArgs, kwargs |-> NoKwargs]

\* with Pipeline() as p: followed by k constructions; before it, possibly,
\* another Pipeline's scope in which one LambdaNode was constructed.
RECURSIVE Builds(_)
Builds(k) ==
    IF k = 0
    THEN {PipelineEnter(EmptyBuild, 1),
          PipelineEnter(PipelineExit(ReturnOutputs(PipelineEnter(EmptyBuild, 2),
                                                   Const5Template), 2), 1)}
    ELSE UNION {{Build(st, t) : t \in RunTemplates(st)} : st \in Builds(k - 1)}

\* The builds of at most MaxChain nodes, their scope left.
BuiltPipelines ==
    {PipelineExit(st, 1) : st \in UNION {Builds(k) : k \in 0..MaxChain}}


\* ------------------------------------------------------- execution actions
\* Control: at is a position of the chain (0: the list iterator of the input,
\* Len(chain) + 1: the consumer); msg is "next" for a next() call that has
\* reached at, "item", "stop" or "raise" for what the generator below handed
\* up to at (a record, StopIteration, another exception), "none" when the
\* consumer is not inside a next() call.
NoControl == [at |-> 0, msg |-> "none", rec |-> 0]

Range(f) == {f[i] : i \in DOMAIN f}

\* The order in which Pipeline.transform_stream wraps the stream, reversed.
ComposeReversed(ns) == [i \in DOMAIN ns |-> ns[Len(ns) + 1 - i]]

\* for node in self.nodes: stream = node.transform_stream(stream)
Compose(ns) == ns

\* Pipeline.transform_stream(stream) as it would be with the input
\* materialised by the call (stream = list(stream) read to its end).
TransformStreamEager(default) ==
    /\ consumer = "none"
    /\ stream' = IF default THEN <<1>> ELSE stream
    /\ obj' = IF default THEN <<EmptyDict>> ELSE obj
    /\ trace' = IF default THEN <<(<<>>)>> ELSE trace
    /\ chain' = Compose(nodes[pipeline])
    /\ gen' = [i \in DOMAIN nodes[pipeline] |-> "created"]
    /\ it' = Len(stream')
    /\ consumer' = "idle"
    /\ op' = [name |-> "transform_stream", arg |-> IF default THEN 0 ELSE 1]
    /\ UNCHANGED <<buildVars, ret, scopes, closed, misnested, popped, init_top,
                   pipeline, ctl, delivered, after_log, warned, pulls>>

\* Pipeline.transform_stream(stream): [{}] when no stream is given; one
\* generator object per node, in the order of self.nodes, each created and
\* not started.
TransformStream(default) ==
    /\ consumer = "none"
    /\ stream' = IF default THEN <<1>> ELSE stream
    /\ obj' = IF default THEN <<EmptyDict>> ELSE obj
    /\ trace' = IF default THEN <<(<<>>)>> ELSE trace
    /\ chain' = Compose(nodes[pipeline])
    /\ gen' = [i \in DOMAIN nodes[pipeline] |-> "created"]
    /\ consumer' = "idle"
    /\ op' = [name |-> "transform_stream", arg |-> IF default THEN 0 ELSE 1]
    /\ UNCHANGED <<buildVars, ret, scopes, closed, misnested, popped, init_top,
                   pipeline, it, ctl, delivered, after_log, warned, pulls>>

\* The consumer calls next() on the composed stream (the for loop of
\* Pipeline.run, or an iteration by hand, which may go on after the end).
Pull ==
    /\ consumer \in {"idle", "exhausted", "error"}
    /\ pulls < Len(stream) + 2
    /\ ctl' = [at |-> Len(chain), msg |-> "next", rec |-> 0]
    /\ consumer' = IF consumer = "idle" THEN "pulling" ELSE consumer
    /\ pulls' = pulls + 1
    /\ UNCHANGED <<buildVars, ret, buildHist, pipeline, stream, it, obj, chain, gen,
                   trace, delivered, after_log, warned>>

\* next() reaches generator i: a created one starts (the warning about
\* outputs never retrieved, then the for loop asks upstream), a suspended
\* one leaves its yield and asks upstream, an ended one raises StopIteration.
Resume(i) ==
    /\ ctl.at = i
    /\ ctl.msg = "next"
    /\ IF gen[i] \in {"created", "suspended"}
       THEN /\ gen' = [gen EXCEPT ![i] = "waiting"]
            /\ ctl' = [at |-> i - 1, msg |-> "next", rec |-> 0]
            /\ warned' = IF gen[i] = "created" /\ ~node[chain[i]].outputs_retrieved
                         THEN warned \cup {chain[i]} ELSE warned
       ELSE /\ ctl' = [at |-> i + 1, msg |-> "stop", rec |-> 0]
            /\ UNCHANGED <<gen, warned>>
    /\ UNCHANGED <<buildVars, ret, buildHist, pipeline, stream, it, obj, chain,
                   consumer, trace, delivered, after_log, pulls>>

\* next() reaches the iterator of the input list: the next record, or
\* StopIteration.
Source ==
    /\ ctl.at = 0
    /\ ctl.msg = "next"
    /\ IF it < Len(stream)
       THEN /\ it' = it + 1
            /\ ctl' = [at |-> 1, msg |-> "item", rec |-> stream[it + 1]]
       ELSE /\ ctl' = [at |-> 1, msg |-> "stop", rec |-> 0]
            /\ UNCHANGED it
    /\ UNCHANGED <<buildVars, ret, buildHist, pipeline, stream, obj, chain, gen,
                   consumer, trace, delivered, after_log, warned, pulls>>

\* The loop body of Node.transform_stream as it would be without its yield:
\* the record is processed and the loop asks upstream for the next one.
TransformNoYield(i) ==
    LET r == ctl.rec
        done == Process(node[chain[i]], obj[r])
    IN  /\ ctl.at = i
        /\ i \in DOMAIN chain
        /\ ctl.msg = "item"
        /\ trace' = IF done.called THEN [trace EXCEPT ![r] = Append(@, chain[i])]
                    ELSE trace
        /\ IF done.err = ""
           THEN /\ obj' = [obj EXCEPT ![r] = done.obj]
                /\ ctl' = [at |-> i - 1, msg |-> "next", rec |-> 0]
                /\ UNCHANGED gen
           ELSE /\ obj' = [obj EXCEPT ![r] = done.obj]
                /\ gen' = [gen EXCEPT ![i] = "failed"]
                /\ ctl' = [at |-> i + 1, msg |-> "raise", rec |-> 0]
        /\ ret' = IF done.err = "" THEN ret ELSE Raised(done.err)
        /\ UNCHANGED <<buildVars, buildHist, pipeline, stream, it, chain,
                       consumer, delivered, after_log, warned, pulls>>

\* Generator i gets a record from upstream: the loop body of
\* Node.transform_stream.  The record is extended and yielded downstream,
\* or the exception of prepare_input, transform or prepare_output ends the
\* generator and goes downstream (ret keeps it).  The record is a dict
\* that prepare_output changes in place, so what it wrote before raising
\* stays written.
Transform(i) ==
    LET r == ctl.rec
        done == Process(node[chain[i]], obj[r])
    IN  /\ ctl.at = i
        /\ i \in DOMAIN chain
        /\ ctl.msg = "item"
        /\ trace' = IF done.called THEN [trace EXCEPT ![r] = Append(@, chain[i])]
                    ELSE trace
        /\ IF done.err = ""
           THEN /\ obj' = [obj EXCEPT ![r] = done.obj]
                /\ gen' = [gen EXCEPT ![i] = "suspended"]
                /\ ctl' = [at |-> i + 1, msg |-> "item", rec |-> r]
           ELSE /\ obj' = [obj EXCEPT ![r] = done.obj]
                /\ gen' = [gen EXCEPT ![i] = "failed"]
                /\ ctl' = [at |-> i + 1, msg |-> "raise", rec |-> 0]
        /\ ret' = IF done.err = "" THEN ret ELSE Raised(done.err)
        /\ UNCHANGED <<buildVars, buildHist, pipeline, stream, it, chain,
                       consumer, delivered, after_log, warned, pulls>>

\* The end of Node.transform_stream as it would be without the call of
\* after_stream.
AfterStreamSkipped(i) ==
    /\ ctl.at = i
    /\ i \in DOMAIN chain
    /\ ctl.msg = "stop"
    /\ gen' = [gen EXCEPT ![i] = "done"]
    /\ ctl' = [at |-> i + 1, msg |-> "stop", rec |-> 0]
    /\ UNCHANGED <<buildVars, ret, buildHist, pipeline, stream, it, obj, chain,
                   consumer, trace, delivered, after_log, warned, pulls>>

\* Generator i gets StopIteration from upstream: its for loop ends,
\* self.after_stream() is called, the generator returns.
AfterStream(i) ==
    /\ ctl.at = i
    /\ i \in DOMAIN chain
    /\ ctl.msg = "stop"
    /\ after_log' = Append(after_log, chain[i])
    /\ gen' = [gen EXCEPT ![i] = "done"]
    /\ ctl' = [at |-> i + 1, msg |-> "stop", rec |-> 0]
    /\ UNCHANGED <<buildVars, ret, buildHist, pipeline, stream, it, obj, chain,
                   consumer, trace, delivered, warned, pulls>>

\* Generator i gets an exception from upstream, inside its for statement:
\* nothing catches it, the generator ends and the exception goes on.
Propagate(i) ==
    /\ ctl.at = i
    /\ i \in DOMAIN chain
    /\ ctl.msg = "raise"
    /\ gen' = [gen EXCEPT ![i] = "failed"]
    /\ ctl' = [at |-> i + 1, msg |-> "raise", rec |-> 0]
    /\ UNCHANGED <<buildVars, ret, buildHist, pipeline, stream, it, obj, chain,
                   consumer, trace, delivered, after_log, warned, pulls>>

\* The consumer's next() returns a record or raises.
Receive ==
    /\ ctl.at = Len(chain) + 1
    /\ ctl.msg \in {"item", "stop", "raise"}
    /\ consumer' = CASE consumer # "pulling" -> consumer
                     [] ctl.msg = "item" -> "idle"
                     [] ctl.msg = "stop" -> "exhausted"
                     [] OTHER -> "error"
    /\ delivered' = IF ctl.msg = "item" THEN Append(delivered, ctl.rec) ELSE delivered
    /\ ctl' = NoControl
    /\ UNCHANGED <<buildVars, ret, buildHist, pipeline, stream, it, obj, chain, gen,
                   trace, after_log, warned, pulls>>

\* The consumer's stop as it would be if the generators ran after_stream in
\* a finally clause.
CloseFinally ==
    /\ consumer = "idle"
    /\ consumer' = "stopped"
    /\ gen' = [i \in DOMAIN gen |->
                 IF gen[i] \in {"created", "suspended"} THEN "closed" ELSE gen[i]]
    /\ after_log' = after_log \o ComposeReversed(chain)
    /\ UNCHANGED <<buildVars, ret, buildHist, pipeline, stream, it, obj, chain, ctl,
                   trace, delivered, warned, pulls>>

\* The consumer stops iterating and drops the stream: each generator is
\* closed (GeneratorExit at its yield, or never started), downstream first.
\* The exception leaves the for loop, so after_stream is not reached.
Close ==
    /\ consumer = "idle"
    /\ consumer' = "stopped"
    /\ gen' = [i \in DOMAIN gen |->
                 IF gen[i] \in {"created", "suspended"} THEN "closed" ELSE gen[i]]
    /\ UNCHANGED <<buildVars, ret, buildHist, pipeline, stream, it, obj, chain, ctl,
                   trace, delivered, after_log, warned, pulls>>

\* The top of the stack when node n of build st was constructed.
RegisteredIn(st, n) ==
    IF \E p \in Pipelines : n \in Range(st.nodes[p])
    THEN CHOOSE p \in Pipelines : n \in Range(st.nodes[p])
    ELSE 0

\* A built pipeline, its scope left, and the caller's list of empty records.
RunInit ==
    \E st \in BuiltPipelines : \E m \in 0..MaxRecords :
        /\ _pipeline_stack = st.stack
        /\ nodes = st.nodes
        /\ class_outputs = st.class_outputs
        /\ node = st.node
        /\ variable = st.variable
        /\ ret = st.ret
        /\ op = [name |-> "exit", arg |-> 1]
        /\ scopes = <<>>
        /\ closed = [pl |-> 1, outer |-> 0]
        /\ misnested = FALSE
        /\ popped = 1
        /\ init_top = [n \in DOMAIN st.node |-> RegisteredIn(st, n)]
        /\ pipeline = 1
        /\ stream = [r \in 1..m |-> r]
        /\ it = 0
        /\ obj = [r \in 1..m |-> EmptyDict]
        /\ chain = <<>>
        /\ gen = <<>>
        /\ ctl = NoControl
        /\ consumer = "none"
        /\ trace = [r \in 1..m |-> <<>>]
        /\ delivered = <<>>
        /\ after_log = <<>>
        /\ warned = {}
        /\ pulls = 0

RunNext ==
    \/ \E default \in BOOLEAN : TransformStream(default)
    \/ Pull
    \/ \E i \in DOMAIN chain : Resume(i)
    \/ Source
    \/ \E i \in DOMAIN chain : Transform(i)
    \/ \E i \in DOMAIN chain : AfterStream(i)
    \/ \E i \in DOMAIN chain : Propagate(i)
    \/ Receive
    \/ Close

RunSpec == RunInit /\ [][RunNext]_vars


\* -------------------------------------------------------- execution claims
\* C5: when the composed stream of a Pipeline with N nodes over M records
\* has been drained (StopIteration reached the consumer, nothing raised),
\* exactly the M records were yielded, in order, and every yielded record
\* was transformed by the N nodes in declaration order, once each.
C5_EveryRecordThroughEveryNode ==
    /\ \A k \in DOMAIN delivered : trace[delivered[k]] = nodes[pipeline]
    /\ consumer = "exhausted" =>
            /\ delivered = stream
            /\ \A r \in DOMAIN stream : trace[r] = nodes[pipeline]

\* Two records went through two nodes and the stream is exhausted.
C5_Witness ==
    /\ consumer = "exhausted"
    /\ Len(stream) = 2
    /\ Len(chain) = 2
    /\ Len(delivered) = 2

\* C6: records go through one at a time: the input hands out record n+1
\* (and so any node transforms it) only after record n has been
\* transformed by every node and yielded to the consumer.
C6_OneRecordAtATime ==
    \A r \in DOMAIN stream :
        r > 1 =>
            /\ it >= r => (r - 1) \in Range(delivered)
            /\ trace[r] # <<>> => trace[r - 1] = chain
            /\ it < r => trace[r] = <<>>

\* The first of two nodes is handed the second record.
C6_Witness ==
    /\ Len(chain) = 2
    /\ it = 2
    /\ ctl = [at |-> 1, msg |-> "item", rec |-> 2]

\* C7: from the call of transform_stream to the consumer's first next(),
\* no transform was invoked, no record was changed, no input record was
\* consumed, no after_stream ran (and no generator has started).
C7_CompositionIsLazy ==
    (consumer # "none" /\ pulls = 0) =>
        /\ \A r \in DOMAIN stream : trace[r] = <<>> /\ obj[r] = EmptyDict
        /\ it = 0
        /\ after_log = <<>>
        /\ warned = {}
        /\ \A i \in DOMAIN gen : gen[i] \in {"created", "closed"}

\* Two nodes were composed over two records and nothing was pulled yet.
C7_Witness ==
    /\ consumer = "idle"
    /\ pulls = 0
    /\ Len(chain) = 2
    /\ Len(stream) = 2

\* C8: the after_stream hooks run in declaration order, each at most once
\* and only after its node transformed every record; once the stream is
\* drained every node's hook has run exactly once.
C8_AfterStreamOncePerNode ==
    /\ Len(after_log) <= Len(chain)
    /\ \A k \in DOMAIN after_log :
            /\ after_log[k] = chain[k]
            /\ \A r \in DOMAIN stream : after_log[k] \in Range(trace[r])
    /\ consumer = "exhausted" => after_log = chain

\* Both hooks of a chain of two ran after two records.
C8_Witness ==
    /\ consumer = "exhausted"
    /\ Len(chain) = 2
    /\ Len(stream) = 2
    /\ after_log = chain

\* C9: as long as the consumer has made no more next() calls than there
\* are records, and once it has stopped iterating, no after_stream ran.
C9_NoAfterStreamWithoutExhaustion ==
    (consumer = "stopped" \/ pulls <= Len(stream)) => after_log = <<>>

\* The consumer got both records of a chain of two nodes and stopped.
C9_Witness ==
    /\ consumer = "stopped"
    /\ Len(chain) = 2
    /\ Len(stream) = 2
    /\ delivered = stream

\* C10: during a run every step keeps every entry of every record as it
\* is, and the entries a step adds are keyed by output Variables of the
\* node that is running.
C10_RecordsOnlyGrow ==
    [][consumer # "none" =>
        \A r \in DOMAIN obj :
            /\ r \in DOMAIN obj'
            /\ \A k \in DOMAIN obj[r] : k \in DOMAIN obj'[r] /\ obj'[r][k] = obj[r][k]
            /\ \A k \in DOMAIN obj'[r] \ DOMAIN obj[r] :
                    /\ ctl.at \in DOMAIN chain
                    /\ k \in Range(node[chain[ctl.at]].outputs)]_vars

\* A record holds entries written by two different nodes.
C10_Witness ==
    \E r \in DOMAIN obj : \E a, b \in DOMAIN obj[r] :
        /\ variable[a].node # variable[b].node
        /\ obj[r][a] # obj[r][b]


\* ------------------------------------------- one node on a chosen argument
\* Values handed to a node as its construction argument: literals of every
\* shape prepare_output tells apart (falsy and not, tuples of 0 to 3
\* elements, tuples wrapped once and twice in a tuple of one element).
Pair == PyTuple(<<PyInt(1), PyInt(2)>>)

Literals ==
    {PyNone, PyInt(0), PyInt(5), PyTuple(<<>>), PyTuple(<<PyInt(5)>>), Pair,
     PyTuple(<<PyInt(1), PyInt(2), PyInt(3)>>),
     PyTuple(<<Pair>>), PyTuple(<<PyTuple(<<Pair>>)>>),
     PyTuple(<<PyTuple(<<PyInt(1), PyInt(2), PyInt(3)>>)>>),
     PyTuple(<<PyInt(0), PyDict(<<PyInt(5)>>)>>)}

\* Arguments that hold the Variable v: itself, in a tuple, in a dict, in a
\* tuple in a tuple, in a tuple in a dict in a tuple.
Holding(v) ==
    {PyVar(v), PyTuple(<<PyVar(v)>>), PyDict(<<PyVar(v)>>),
     PyTuple(<<PyInt(0), PyTuple(<<PyVar(v)>>)>>),
     PyTuple(<<PyDict(<<PyTuple(<<PyInt(0), PyVar(v)>>)>>)>>)}

\* cls(lambda x: x, arg): a node whose transform returns its resolved
\* argument, of a class with one port, with two, with none.
UnitTemplates(st) ==
    {[cls |-> c, clbl |-> "identity", args |-> PyTuple(<<x>>), kwargs |-> NoKwargs] :
        c \in Classes,
        x \in Literals \cup UNION {Holding(v) : v \in DOMAIN st.variable}}

\* with Pipeline() as p: [a = LambdaNode(lambda: 5)]; cls(lambda x: x, arg);
\* [LambdaNode(lambda: 5)] -- the scope left.
UnitBuilds ==
    LET first == Builds(0) \cup {ReturnOutputs(st, Const5Template) : st \in Builds(0)}
        second == UNION {{ReturnOutputs(st, t) : t \in UnitTemplates(st)} : st \in first}
        third == second \cup {ReturnOutputs(st, Const5Template) : st \in second}
    IN  {PipelineExit(st, 1) : st \in third}

\* RunInit for the builds of UnitBuilds.
UnitInit ==
    \E st \in UnitBuilds : \E m \in 0..MaxRecords :
        /\ _pipeline_stack = st.stack
        /\ nodes = st.nodes
        /\ class_outputs = st.class_outputs
        /\ node = st.node
        /\ variable = st.variable
        /\ ret = st.ret
        /\ op = [name |-> "exit", arg |-> 1]
        /\ scopes = <<>>
        /\ closed = [pl |-> 1, outer |-> 0]
        /\ misnested = FALSE
        /\ popped = 1
        /\ init_top = [n \in DOMAIN st.node |-> RegisteredIn(st, n)]
        /\ pipeline = 1
        /\ stream = [r \in 1..m |-> r]
        /\ it = 0
        /\ obj = [r \in 1..m |-> EmptyDict]
        /\ chain = <<>>
        /\ gen = <<>>
        /\ ctl = NoControl
        /\ consumer = "none"
        /\ trace = [r \in 1..m |-> <<>>]
        /\ delivered = <<>>
        /\ after_log = <<>>
        /\ warned = {}
        /\ pulls = 0

UnitSpec == UnitInit /\ [][RunNext]_vars


\* ------------------------------------------------ claims on prepare_output
\* The positions of the chain that hold a node built on `lambda x: x`.
Tested == {i \in DOMAIN chain : node[chain[i]].clbl = "identity"}

\* transform was invoked by the node at position i for record r.
Transformed(i, r) == chain[i] \in Range(trace[r])

\* What transform returned then: the node's argument, resolved (the record's
\* entries that the argument refers to are not written again afterwards).
Result(i, r) == _resolve_variable(obj[r], node[chain[i]].args.items[1])

Ports(i) == node[chain[i]].outputs

\* The node at position i failed with the count-mismatch error of
\* prepare_output (ValueError), which ended its generator.
CountMismatch(i) == gen[i] = "failed" /\ ret = Raised("ValueError")

\* No output of the node at position i is in record r.
NoneBound(i, r) == \A j \in DOMAIN Ports(i) : Key(Ports(i)[j]) \notin DOMAIN obj[r]

\* The outputs of the node at position i are bound in record r, the j-th to
\* the j-th of values.
BoundTo(i, r, values) ==
    /\ Len(values) = Len(Ports(i))
    /\ \A j \in DOMAIN Ports(i) :
        /\ Key(Ports(i)[j]) \in DOMAIN obj[r]
        /\ obj[r][Key(Ports(i)[j])] = values[j]

RECURSIVE Innermost(_, _)
Innermost(values, k) ==
    IF Len(values) # k /\ Len(values) = 1 /\ values[1].t = "tuple"
    THEN Innermost(values[1].items, k)
    ELSE values

GetattrInPlace(st, v, name) == [st EXCEPT !.ret = PyVar(v)]

\* Variable.__getattr__: LambdaNode(getattr, self, name), LambdaNode being
\* the wrapper that ReturnOutputs made of the class.
__getattr__(st, v, name) ==
    ReturnOutputs(st, [cls |-> "LambdaNode", clbl |-> "getattr",
                       args |-> PyTuple(<<PyVar(v), name>>), kwargs |-> NoKwargs])

\* Variable.__getitem__: LambdaNode(operator.getitem, self, key)
__getitem__(st, v, key) ==
    ReturnOutputs(st, [cls |-> "LambdaNode", clbl |-> "getitem",
                       args |-> PyTuple(<<PyVar(v), key>>), kwargs |-> NoKwargs])

\* Variable.__setitem__: LambdaNode(operator.setitem, self, key, value)
__setitem__(st, v, key, value) ==
    ReturnOutputs(st, [cls |-> "LambdaNode", clbl |-> "setitem",
                       args |-> PyTuple(<<PyVar(v), key, value>>), kwargs |-> NoKwargs])

\* The Variables a caller can hold: the outputs of the nodes whose
\* construction did not fail.
Held == {v \in DOMAIN variable : init_top[variable[v].node] # 0}

\* The attribute names and keys asked for.
Names == {PyStr(1)}
Keys == {PyInt(0)}

\* v.name for a name that is no slot of Variable
GetAttr(v, name) ==
    /\ Len(node) < MaxNodes
    /\ Install(__getattr__(Cur, v, name))
    /\ op' = [name |-> "getattr", arg |-> v]
    /\ init_top' = Append(init_top, Top(_pipeline_stack))
    /\ closed' = NoScope
    /\ popped' = 0
    /\ UNCHANGED <<scopes, misnested, runVars, runHist>>

\* v[key]
GetItem(v, key) ==
    /\ Len(node) < MaxNodes
    /\ Install(__getitem__(Cur, v, key))
    /\ op' = [name |-> "getitem", arg |-> v]
    /\ init_top' = Append(init_top, Top(_pipeline_stack))
    /\ closed' = NoScope
    /\ popped' = 0
    /\ UNCHANGED <<scopes, misnested, runVars, runHist>>

\* v[key] = value
SetItemOf(v, key, value) ==
    /\ Len(node) < MaxNodes
    /\ Install(__setitem__(Cur, v, key, value))
    /\ op' = [name |-> "setitem", arg |-> v]
    /\ init_top' = Append(init_top, Top(_pipeline_stack))
    /\ closed' = NoScope
    /\ popped' = 0
    /\ UNCHANGED <<scopes, misnested, runVars, runHist>>

\* The build phase with the operations of Variable: scopes, LambdaNodes of a
\* constant, and attributes and items of their outputs.
AccessNext ==
    \/ \E p \in Pipelines : Enter(p)
    \/ \E p \in Pipelines : Exit(p)
    \/ NewNodeOutputs(Const5Template)
    \/ \E v \in Held : \E name \in Names : GetAttr(v, name)
    \/ \E v \in Held : \E key \in Keys : GetItem(v, key)
    \/ \E v \in Held : \E key \in Keys : SetItemOf(v, key, PyNone)

AccessSpec == Init /\ [][AccessNext]_vars

\* What is constructed in CallSpec: a node of each class.
CallTemplates ==
    {[cls |-> "LambdaNode", clbl |-> "const5", args |-> NoArgs, kwargs |-> NoKwargs],
     [cls |-> "Split", clbl |-> "pair", args |-> NoArgs, kwargs |-> NoKwargs],
     [cls |-> "Sink", clbl |-> "none", args |-> NoArgs, kwargs |-> NoKwargs]}

\* Inside `with Pipeline() as p:`.
CallInit ==
    \E p \in Pipelines :
        /\ _pipeline_stack = PipelineEnter(EmptyBuild, p).stack
        /\ nodes = PipelineEnter(EmptyBuild, p).nodes
        /\ class_outputs = InitialClassOutputs
        /\ node = <<>>
        /\ variable = <<>>
        /\ ret = PipelineEnter(EmptyBuild, p).ret
        /\ op = [name |-> "enter", arg |-> p]
        /\ scopes = <<[pl |-> p, outer |-> 0]>>
        /\ closed = NoScope
        /\ misnested = FALSE
        /\ popped = 0
        /\ init_top = <<>>
        /\ Idle

\* Constructions, bare and through ReturnOutputs' wrapper, and calls of the
\* constructed nodes, inside the scope.
CallNext ==
    \/ \E t \in CallTemplates : NewNode(t)
    \/ \E t \in CallTemplates : NewNodeOutputs(t)
    \/ \E n \in DOMAIN node : Retrieve(n)

CallSpec == CallInit /\ [][CallNext]_vars


\* ---------------------------------------------------- claims on Variable
\* C13 as stated: asking a Variable for an attribute or an item never
\* fails, in any state: every such call returns a Variable.
C13_AccessNeverFails ==
    [][op'.name \in {"getattr", "getitem"} => ret'.t = "var"]_vars

\* C13, amended: asking a Variable for an attribute or an item touches no
\* record; while a Pipeline is active it constructs a new LambdaNode (of
\* getattr or operator.getitem, the Variable its first argument), registers
\* it in the innermost active Pipeline and in no other, and returns a new
\* Variable, not the one asked, that is the node's only output; while no
\* Pipeline is active it fails with RuntimeError and registers nothing.
C13_AccessBuildsNodeWhileActive ==
    [][op'.name \in {"getattr", "getitem"} =>
        /\ UNCHANGED <<runVars, runHist>>
        /\ _pipeline_stack' = _pipeline_stack
        /\ IF _pipeline_stack = <<>>
           THEN ret' = Raised("RuntimeError") /\ nodes' = nodes
           ELSE LET n == Len(node')
                    w == ret'.n
                IN  /\ n = Len(node) + 1
                    /\ node'[n].cls = "LambdaNode"
                    /\ node'[n].clbl = op'.name
                    /\ node'[n].args.items[1] = PyVar(op'.arg)
                    /\ nodes' = [nodes EXCEPT ![Top(_pipeline_stack)] = Append(@, n)]
                    /\ ret'.t = "var"
                    /\ w # op'.arg
                    /\ w \notin DOMAIN variable
                    /\ w \in DOMAIN variable'
                    /\ node'[n].outputs = <<w>>
                    /\ variable'[w].node = n
      ]_vars

\* An attribute of a Variable was asked for inside two nested scopes: the
\* new node is in the inner Pipeline only, the result is another Variable.
C13_Witness ==
    /\ op.name = "getattr"
    /\ Len(_pipeline_stack) = 2
    /\ _pipeline_stack[1] # _pipeline_stack[2]
    /\ ret.t = "var"
    /\ ret.n # op.arg
    /\ Len(node) \in Range(nodes[_pipeline_stack[2]])
    /\ Len(node) \notin Range(nodes[_pipeline_stack[1]])


\* ------------------------------------------------- claims on prepare_input
\* The Variables that occur in a value, at any depth of tuples and dicts.
RECURSIVE Refs(_)
Refs(x) ==
    IF x.t = "var" THEN {x.n}
    ELSE IF x.t \in {"tuple", "dict"}
    THEN UNION {Refs(x.items[i]) : i \in DOMAIN x.items}
    ELSE {}

\* The construction argument of the node at position i.
Argument(i) == node[chain[i]].args.items[1]

\* A Variable of the argument of the node at position i is no key of
\* record r.
Missing(i, r) == \E v \in Refs(Argument(i)) : Key(v) \notin DOMAIN obj[r]

\* The node at position i is done with record r: it called transform for
\* it, or it failed on it (records are handed on one at a time, so the
\* record a generator fails on is the last one read from the input).
Handled(i, r) == Transformed(i, r) \/ (gen[i] = "failed" /\ it = r)

\* C14: a node whose argument holds, at any depth, a Variable that is absent
\* from the record fails with KeyError before transform is called, and the
\* record goes to no later node and not to the consumer; an argument
\* without Variables reaches transform as it is; a node whose argument holds
\* a Variable of a node of another Pipeline fails at the first record.
C14_MissingReferenceFails ==
    \A i \in Tested : \A r \in DOMAIN obj :
        /\ (Missing(i, r) /\ Handled(i, r))
            => /\ gen[i] = "failed"
               /\ ret = Raised("KeyError")
               /\ ~Transformed(i, r)
               /\ NoneBound(i, r)
               /\ r \notin Range(delivered)
               /\ \A j \in DOMAIN chain : j > i => chain[j] \notin Range(trace[r])
        /\ (Refs(Argument(i)) = {} /\ Transformed(i, r) /\ Len(Ports(i)) = 1)
            => BoundTo(i, r, <<Argument(i)>>)
        /\ ((\E v \in Refs(Argument(i)) : init_top[variable[v].node] # pipeline)
            /\ (\E q \in DOMAIN obj : Handled(i, q)))
            => gen[i] = "failed" /\ it = 1 /\ ret = Raised("KeyError")

\* A node whose argument holds, in a tuple in a dict in a tuple, a Variable
\* of a node of another Pipeline has failed with KeyError at the first
\* record.
C14_Witness ==
    \E i \in Tested : \E v \in DOMAIN variable :
        /\ Argument(i) = PyTuple(<<PyDict(<<PyTuple(<<PyInt(0), PyVar(v)>>)>>)>>)
        /\ init_top[variable[v].node] # pipeline
        /\ gen[i] = "failed"
        /\ ret = Raised("KeyError")
        /\ it = 1
        /\ ~Transformed(i, 1)


\* ----------------------------------------------------- claims on data flow
\* The executed pipeline is a = LambdaNode(lambda: 5) followed by
\* b = LambdaNode(double, a), composed over the default input.
FlowScenario ==
    /\ op = [name |-> "transform_stream", arg |-> 0]
    /\ Len(chain) = 2
    /\ node[chain[1]].cls = "LambdaNode"
    /\ node[chain[1]].clbl = "const5"
    /\ node[chain[1]].args = NoArgs
    /\ node[chain[2]].cls = "LambdaNode"
    /\ node[chain[2]].clbl = "double"
    /\ node[chain[2]].args = PyTuple(<<PyVar(node[chain[1]].outputs[1])>>)

\* C15: in that scenario there is exactly one record, empty before the
\* first node has run; no node fails; and when the stream is exhausted the
\* record has been through both nodes, was handed to the consumer once, and
\* is exactly a -> 5, b -> 10.
C15_DataFlowsThroughReferences ==
    FlowScenario =>
        LET a == Key(node[chain[1]].outputs[1])
            b == Key(node[chain[2]].outputs[1])
        IN  /\ DOMAIN obj = {1}
            /\ a # b
            /\ trace[1] = <<>> => obj[1] = EmptyDict
            /\ consumer # "error"
            /\ \A i \in DOMAIN gen : gen[i] # "failed"
            /\ consumer = "exhausted" =>
                /\ obj[1] = [x \in {a, b} |-> IF x = a THEN PyInt(5) ELSE PyInt(10)]
                /\ trace[1] = chain
                /\ delivered = <<1>>

\* The scenario has run to the end of the stream, with a -> 5 and b -> 10
\* in the record.
C15_Witness ==
    /\ FlowScenario
    /\ consumer = "exhausted"
    /\ obj[1][Key(node[chain[1]].outputs[1])] = PyInt(5)
    /\ obj[1][Key(node[chain[2]].outputs[1])] = PyInt(10)


\* ------------------------------------------------ claims on Node.__call__
\* C16: a call of a node returns None when the node has no port, its one
\* Variable when it has one, and otherwise the list of its Variables in port
\* order, and it marks the node's outputs retrieved; the wrapper made by
\* ReturnOutputs returns just that for the node it has constructed, which
\* is registered in the active Pipeline.
C16_CallReturnsOutputsByCount ==
    op.name \in {"call", "wrapper"} =>
        LET n == IF op.name = "call" THEN op.arg ELSE Len(node)
            outputs == node[n].outputs
            ports == ClassOutputs(class_outputs, node[n].cls)
        IN  /\ node[n].outputs_retrieved
            /\ Len(outputs) = Len(ports)
            /\ \A i \in DOMAIN outputs :
                variable[outputs[i]] = [name |-> ports[i], node |-> n]
            /\ Len(outputs) = 0 => ret = PyNone
            /\ Len(outputs) = 1 => ret = PyVar(outputs[1])
            /\ Len(outputs) >= 2 =>
                /\ ret.t = "list"
                /\ Len(ret.items) = Len(outputs)
                /\ \A i \in DOMAIN outputs : ret.items[i] = PyVar(outputs[i])
            /\ op.name = "wrapper" =>
                /\ init_top[n] = Top(_pipeline_stack)
                /\ Count(nodes[Top(_pipeline_stack)], n) = 1

\* The wrapper has returned the two Variables of a new node with the ports
\* first, second, in that order, and the outputs of a node without ports
\* have been retrieved as well.
C16_Witness ==
    /\ op.name = "wrapper"
    /\ ret.t = "list"
    /\ Len(ret.items) = 2
    /\ variable[ret.items[1].n].name = "first"
    /\ variable[ret.items[2].n].name = "second"
    /\ node[Len(node)].outputs_retrieved
    /\ \E n \in DOMAIN node : node[n].outputs = <<>> /\ node[n].outputs_retrieved


\* ------------------------------------------------- Output as a decorator
\* A class as a value (n: its place in TypeNames).
PyClass(c) ==
    [t |-> "class", n |-> CHOOSE i \in DOMAIN TypeNames : TypeNames[i] = c,
     items |-> <<>>]

\* Output.__call__ as it would be with outputs.append(self).
OutputCallAppend(st, name, cls) ==
    IF cls = "wrapper" THEN [st EXCEPT !.ret = Raised("TypeError")]
    ELSE IF cls \notin NodeTypes THEN [st EXCEPT !.ret = Raised("ValueError")]
    ELSE LET owner == OwnerOf(st.class_outputs, cls)
             target == IF owner = "Node" THEN cls ELSE owner
         IN  [st EXCEPT !.class_outputs[target] = Append(@, name),
                        !.ret = PyClass(cls)]

\* Output(name).__call__(cls): issubclass raises TypeError for what is no
\* class, the decorator ValueError for a class that is no subclass of Node;
\* otherwise the list that the lookup cls.outputs finds -- the class's own
\* or the one of its base class -- or, when there is none, a new list of
\* the class gets the Output at its front, and the class is returned.
\* (self.node_cls = cls is read by __repr__ only and left out.)
OutputCall(st, name, cls) ==
    IF cls = "wrapper" THEN [st EXCEPT !.ret = Raised("TypeError")]
    ELSE IF cls \notin NodeTypes THEN [st EXCEPT !.ret = Raised("ValueError")]
    ELSE LET owner == OwnerOf(st.class_outputs, cls)
             target == IF owner = "Node" THEN cls ELSE owner
         IN  [st EXCEPT !.class_outputs[target] = <<name>> \o @,
                        !.ret = PyClass(cls)]

\* The names of the Outputs applied.
PortNames == {"p", "q"}

\* What an Output is applied to: a class without ports, one with ports, a
\* subclass of the latter, and what is no subclass of Node.
Targets == {"Sink", "Split", "SubSplit", "int", "wrapper"}

\* The number of Outputs in the port lists beyond those of
\* InitialClassOutputs.
Applied(co) ==
    Len(co["LambdaNode"]) + Len(co["Sink"]) + Len(co["Split"]) + Len(co["SubSplit"])
    - (Len(InitialClassOutputs["LambdaNode"]) + Len(InitialClassOutputs["Sink"])
       + Len(InitialClassOutputs["Split"]) + Len(InitialClassOutputs["SubSplit"]))

\* Output(name)(cls)
Decorate(name, cls) ==
    /\ Applied(class_outputs) < MaxOutputs
    /\ Install(OutputCall(Cur, name, cls))
    /\ op' = [name |-> "output", port |-> name,
              arg |-> CHOOSE i \in DOMAIN TypeNames : TypeNames[i] = cls]
    /\ closed' = NoScope
    /\ popped' = 0
    /\ UNCHANGED <<scopes, misnested, init_top, runVars, runHist>>

\* What is constructed in DeclSpec: a step with two ports and one of its
\* subclass.
DeclTemplates ==
    {[cls |-> c, clbl |-> "none", args |-> NoArgs, kwargs |-> NoKwargs] :
        c \in {"Split", "SubSplit"}}

\* Inside a scope: Outputs are applied to classes, nodes are constructed.
DeclNext ==
    \/ \E name \in PortNames : \E cls \in Targets : Decorate(name, cls)
    \/ \E t \in DeclTemplates : NewNode(t)

DeclSpec == CallInit /\ [][DeclNext]_vars

\* ---------------------------------------------------- claims on Output
\* C17: an Output applied to a subclass of Node becomes the first entry of
\* the class's port list, before the ports the class had (so d1, ..., dk
\* applied in this order give dk, ..., d1), and the class is returned;
\* applied to anything else it fails and no port list changes.
C17_OutputInsertedAtFront ==
    [][op'.name = "output" =>
        LET cls == TypeNames[op'.arg]
        IN  IF cls \in NodeTypes
            THEN /\ ClassOutputs(class_outputs', cls)
                        = <<op'.port>> \o ClassOutputs(class_outputs, cls)
                 /\ ret' = PyClass(cls)
            ELSE /\ IsRaised(ret')
                 /\ class_outputs' = class_outputs
      ]_vars

\* q was applied to Sink last, after p: Sink's ports are q, p.
C17_Witness ==
    /\ op.name = "output"
    /\ TypeNames[op.arg] = "Sink"
    /\ op.port = "q"
    /\ ClassOutputs(class_outputs, "Sink") = <<"q", "p">>

\* The number of Variables that a new instance of cls binds.
BoundByNew(st, cls) == Len(NodeInit(st, cls).node[Len(st.node) + 1].outputs)

\* C18 as stated: an Output applied to a class changes the port list of no
\* other class -- not of a base class of it either -- and new instances of
\* the other classes bind as many Variables as before.  (The subclasses of
\* the decorated class, which inherit its ports, are not counted among the
\* other classes here.)
C18_OtherTypesUnchanged ==
    [][op'.name = "output" =>
        \A other \in NodeTypes \ {TypeNames[op'.arg]} :
            BaseOf(other) # TypeNames[op'.arg] =>
                /\ ClassOutputs(class_outputs', other) = ClassOutputs(class_outputs, other)
                /\ BoundByNew(Cur', other) = BoundByNew(Cur, other)
      ]_vars


\* ------------------------------------------- claims on Pipeline.__exit__
\* C19 as stated: an exit on a non-empty stack removes the top entry, and
\* after an exit that fails the Pipeline that was removed is no longer
\* active.
C19_RemovedPipelineInactive ==
    [][(op'.name = "exit" /\ _pipeline_stack # <<>>) =>
        /\ _pipeline_stack' = Front(_pipeline_stack)
        /\ ret' = Raised("AssertionError")
            => Top(_pipeline_stack) \notin Range(_pipeline_stack')
      ]_vars

\* C19, amended: an exit on a non-empty stack removes exactly the top
\* entry, whether it succeeds or fails; it fails, with AssertionError, just
\* when that entry is not the exiting Pipeline, and then the stack is one
\* entry shorter and holds one entry less of the Pipeline removed (which
\* stays active only if it was entered more than once).
C19_ExitAlwaysPopsTop ==
    [][(op'.name = "exit" /\ _pipeline_stack # <<>>) =>
        /\ _pipeline_stack' = Front(_pipeline_stack)
        /\ Len(_pipeline_stack') = Len(_pipeline_stack) - 1
        /\ ret' = Raised("AssertionError") <=> Top(_pipeline_stack) # op'.arg
        /\ ret' # Raised("AssertionError") => ret' = PyNone
        /\ Count(_pipeline_stack', Top(_pipeline_stack))
            = Count(_pipeline_stack, Top(_pipeline_stack)) - 1
      ]_vars

\* An exit has failed on a stack of two Pipelines: the inner one, which was
\* not the exiting one, is gone and the stack holds the outer one.
C19_Witness ==
    /\ op.name = "exit"
    /\ ret = Raised("AssertionError")
    /\ popped # 0
    /\ popped # op.arg
    /\ Len(_pipeline_stack) = 1
    /\ popped \notin Range(_pipeline_stack)


\* ------------------------------------- claims on a failing prepare_output
\* The record as the nodes before position i leave it: each of them is a
\* LambdaNode of the constant 5, its output bound to 5.
Upstream(i) ==
    [k \in {Key(node[chain[j]].outputs[1]) : j \in 1..(i - 1)} |-> PyInt(5)]

\* C20: a node without ports fails just when its transform returned a value
\* that is not falsy; and whenever prepare_output fails (transform was
\* called, so prepare_input and transform did not fail), the error is the
\* ValueError of prepare_output, the record is exactly what the nodes before
\* left, no output of the failing node is in it, and it goes to no later
\* node and not to the consumer.
C20_FailedOutputLeavesRecord ==
    \A i \in Tested : \A r \in DOMAIN obj :
        Transformed(i, r) =>
            /\ Len(Ports(i)) = 0 => (gen[i] = "failed" <=> Truthy(Result(i, r)))
            /\ gen[i] = "failed" =>
                /\ ret = Raised("ValueError")
                /\ obj[r] = Upstream(i)
                /\ NoneBound(i, r)
                /\ r \notin Range(delivered)
                /\ \A j \in DOMAIN chain : j > i => chain[j] \notin Range(trace[r])

\* A node with two ports has failed on the result (1, 2, 3), after a node
\* that bound its output to 5: the record holds that entry and no other.
C20_Witness ==
    \E i \in Tested : \E r \in DOMAIN obj :
        /\ i = 2
        /\ Len(Ports(i)) = 2
        /\ Transformed(i, r)
        /\ Result(i, r) = PyTuple(<<PyInt(1), PyInt(2), PyInt(3)>>)
        /\ gen[i] = "failed"
        /\ ret = Raised("ValueError")
        /\ DOMAIN obj[r] = {Key(node[chain[1]].outputs[1])}

====
